---- MODULE Spec2Model ----
(***************************************************************************)
(* The debounce daemon of lint/persist.py (class Daemon): the queue        *)
(* protocol, the consumer loop with its timed get and its sweep, and the   *)
(* producer entry points start, hit and delay.                             *)
(*                                                                         *)
(* Time is the monotonic clock in ticks of 0.1 s, so MIN_DELAY = 0.1 s is  *)
(* one tick.  Any number of statements may run within one tick: two clock  *)
(* readings taken by different statements can be equal.                    *)
(*                                                                         *)
(* The history variables (ops .. sweep) record what the claims speak about *)
(* and are never read by the daemon's code.  deq, fired, printed and sweep *)
(* describe the latest iteration of the loop only.                         *)
(***************************************************************************)
EXTENDS Integers, Sequences, FiniteSets, TLC

\* Daemon.MIN_DELAY = 0.1 (seconds), in ticks of 0.1 s
MIN_DELAY == 1

\* ---- bounds of the model
MaxTime == 4
MaxOps == 2

Docs == {1, 2}
Producers == {1, 2}
Starters == {1, 2}
MainThread == {1}
Callbacks == {1, 2}
DelayMs == {-100, 200}
Foreign == {"tuple3", "str", "none"}

VARIABLES
    now,            \* time.monotonic()
    running,        \* Daemon.running
    callback,       \* Daemon.callback (0 is None)
    q,              \* Daemon.q
    last_runs,      \* Daemon.last_runs: view id -> clock reading of its last sweep
    tpc,            \* per loop thread: "none" (not created), "get", "sleep",
                    \*   "call" (inside the callback, line 211)
    loop_last_runs, \* per loop thread: the local last_runs of loop(), view id -> timestamp
    remaining,      \* per loop thread: how much of its q.get timeout or of its
                    \*   time.sleep is left
    ppc,            \* per producer: "idle", or "put" between lines 253 and 254 of hit
    pstamp,         \* per producer: the (view id, timestamp) hit holds
    spc,            \* per starter: "idle", "test" (before line 203), "put", "spawn"
    opened,         \* number of views hit so far: view ids 1..opened
    newest,         \* history: view id -> the greatest timestamp hit has returned for it
    ops,            \* history: number of operations begun (a first start call is free)
    swept,          \* history: a sweep has run
    caught,         \* history: the except clause of the loop has run
    window,         \* history: per loop thread and view id, the requests accepted since
                    \*   the view id was last dispatched:
                    \*   <<[ts, at, swept, afterErr, cb, skipped]>>; skipped: a sweep ended
                    \*   by an exception did not get to the view id
    hold,           \* history: per loop thread, the latest delay instruction [from, until]
    discarded,      \* history: the (view id, timestamp) pairs dropped as stale
    lastFired,      \* history: view id -> timestamp of its latest callback
    dispatched,     \* history: the (view id, timestamp) pairs passed to the callback
    quiet,          \* history: per loop thread, for how long (up to MIN_DELAY) it has been
                    \*   waiting in q.get with the queue empty
    deq,            \* history: the item of the latest iteration (kind "" if a sweep)
    fired,          \* history: the callback calls of the latest iteration
    printed,        \* history: what the latest iteration wrote with printf
    sweep           \* history: the latest iteration if it was a sweep (by 0 if not)

vars == <<now, running, callback, q, last_runs, tpc, loop_last_runs, remaining,
          ppc, pstamp, spc, opened, newest, ops, swept, caught, window, hold,
          discarded, lastFired, dispatched, quiet, deq, fired, printed, sweep>>

\* ---- dictionaries (a Python dict as a function on its key set)
EmptyDict == [k \in {} |-> 0]

DictSet(d, k, v) == [x \in (DOMAIN d) \cup {k} |-> IF x = k THEN v ELSE d[x]]

DictDel(d, k) == [x \in (DOMAIN d) \ {k} |-> d[x]]

\* ---- queue messages.  kind is the Python type: "tuple", "number", "str", "none";
\* afterErr is history: the message was put after the loop had caught an exception
Item(kind, arity, view_id, timestamp, secs, text) ==
    [kind |-> kind, arity |-> arity, view_id |-> view_id, timestamp |-> timestamp,
     secs |-> secs, text |-> text, afterErr |-> FALSE]

CheckRequest(view_id, timestamp) == Item("tuple", 2, view_id, timestamp, 0, "")

Number(secs) == Item("number", 0, 0, 0, secs, "")

Str(text) == Item("str", 0, 0, 0, 0, text)

ForeignItem(f) ==
    IF f = "tuple3" THEN Item("tuple", 3, 0, 0, 0, "")
    ELSE IF f = "str" THEN Str("other")
    ELSE Item("none", 0, 0, 0, 0, "")

NoItem == Item("", 0, 0, 0, 0, "")

NoSweep ==
    [by |-> 0, at |-> 0, before |-> EmptyDict, raised |-> FALSE,
     hold |-> [from |-> 0, until |-> 0], swept |-> FALSE, rest |-> {}]

NoDeq == [item |-> NoItem, at |-> 0, by |-> 0, outcome |-> "", known |-> FALSE, last |-> 0]

\* history: the step is not an iteration of the loop
NoIteration == deq' = NoDeq /\ fired' = <<>> /\ printed' = <<>> /\ sweep' = NoSweep

\* Queue.put: the message joins the tail of the queue
Put(item) == q' = Append(q, [item EXCEPT !.afterErr = caught])

Init ==
    /\ now = 0
    /\ running = FALSE
    /\ callback = 0
    /\ q = <<>>
    /\ last_runs = EmptyDict
    /\ tpc = [t \in Starters |-> "none"]
    /\ loop_last_runs = [t \in Starters |-> EmptyDict]
    /\ remaining = [t \in Starters |-> 0]
    /\ ppc = [p \in Producers |-> "idle"]
    /\ pstamp = [p \in Producers |-> NoItem]
    /\ spc = [s \in Starters |-> "idle"]
    /\ opened = 0
    /\ newest = EmptyDict
    /\ ops = 0
    /\ swept = FALSE
    /\ caught = FALSE
    /\ window = [t \in Starters |-> EmptyDict]
    /\ hold = [t \in Starters |-> [from |-> 0, until |-> 0]]
    /\ discarded = {}
    /\ lastFired = EmptyDict
    /\ dispatched = {}
    /\ quiet = [t \in Starters |-> 0]
    /\ deq = NoDeq
    /\ fired = <<>>
    /\ printed = <<>>
    /\ sweep = NoSweep

\* ---- the clock
\* one tick passes for the timeouts and the sleeps in progress
Elapse ==
    /\ remaining' = [t \in Starters |-> IF remaining[t] > 0 THEN remaining[t] - 1 ELSE 0]
    /\ quiet' = [t \in Starters |->
                    IF tpc[t] = "get" /\ q = <<>>
                    THEN (IF quiet[t] < MIN_DELAY THEN quiet[t] + 1 ELSE MIN_DELAY)
                    ELSE 0]

Tick ==
    /\ now < MaxTime
    /\ running
    /\ now' = now + 1
    /\ Elapse
    /\ UNCHANGED <<running, callback, q, last_runs, tpc, loop_last_runs, ppc, pstamp,
                   spc, opened, newest, ops, swept, caught, window, hold, discarded, lastFired,
                   dispatched>>
    /\ NoIteration

\* the clock beyond MaxTime: the timeouts and sleeps go on running, the readings of
\* the clock beyond MaxTime are all represented by MaxTime
TickPast ==
    /\ now = MaxTime
    /\ running
    /\ Elapse
    /\ UNCHANGED <<now, running, callback, q, last_runs, tpc, loop_last_runs, ppc, pstamp,
                   spc, opened, newest, ops, swept, caught, window, hold, discarded, lastFired,
                   dispatched>>
    /\ NoIteration

\* ---- Daemon.start, statement by statement, run by thread s
\* line 201: self.callback = callback
StartRegister(s, cb) ==
    /\ spc[s] = "idle"
    /\ cb <= callback + 1
    /\ running => ops < MaxOps
    /\ ops' = IF running THEN ops + 1 ELSE ops
    /\ callback' = cb
    /\ spc' = [spc EXCEPT ![s] = "test"]
    /\ UNCHANGED <<now, running, q, last_runs, tpc, loop_last_runs, remaining,
                   ppc, pstamp, opened, newest, swept, caught, window, hold, discarded,
                   lastFired, dispatched, quiet>>
    /\ NoIteration

\* line 203: if self.running
StartTest(s) ==
    /\ spc[s] = "test"
    /\ spc' = [spc EXCEPT ![s] = IF running THEN "put" ELSE "spawn"]
    /\ UNCHANGED <<now, running, callback, q, last_runs, tpc, loop_last_runs, remaining,
                   ppc, pstamp, opened, newest, ops, swept, caught, window, hold,
                   discarded, lastFired, dispatched, quiet>>
    /\ NoIteration

\* lines 204-205: self.q.put('reload'); return
StartReload(s) ==
    /\ spc[s] = "put"
    /\ Put(Str("reload"))
    /\ spc' = [spc EXCEPT ![s] = "idle"]
    /\ UNCHANGED <<now, running, callback, last_runs, tpc, loop_last_runs, remaining,
                   ppc, pstamp, opened, newest, ops, swept, caught, window, hold,
                   discarded, lastFired, dispatched, quiet>>
    /\ NoIteration

\* lines 207-208: self.running = True; threading.Thread(target=self.loop).start()
\* the new thread enters loop() with an empty local last_runs (line 214)
StartThread(s) ==
    /\ spc[s] = "spawn"
    /\ running' = TRUE
    /\ tpc' = [tpc EXCEPT ![s] = "get"]
    /\ loop_last_runs' = [loop_last_runs EXCEPT ![s] = EmptyDict]
    /\ remaining' = [remaining EXCEPT ![s] = MIN_DELAY]
    /\ spc' = [spc EXCEPT ![s] = "idle"]
    /\ UNCHANGED <<now, callback, q, last_runs, ppc, pstamp, opened, newest, ops, swept,
                   caught, window, hold, discarded, lastFired, dispatched, quiet>>
    /\ NoIteration

\* ---- Daemon.hit, run by producer thread p.  Producer threads keep nothing between
\* calls, so a call is given to the first thread that is not inside hit.
\* line 253: timestamp = time.monotonic()
HitStamp(p, view_id) ==
    /\ ppc[p] = "idle"
    /\ \A p2 \in Producers : p2 < p => ppc[p2] = "put"
    /\ view_id <= opened + 1
    /\ opened' = IF view_id > opened THEN view_id ELSE opened
    /\ newest' = DictSet(newest, view_id, now)
    /\ ops < MaxOps
    /\ ops' = ops + 1
    /\ pstamp' = [pstamp EXCEPT ![p] = CheckRequest(view_id, now)]
    /\ ppc' = [ppc EXCEPT ![p] = "put"]
    /\ UNCHANGED <<now, running, callback, q, last_runs, tpc, loop_last_runs, remaining,
                   spc, swept, caught, window, hold, discarded,
                   lastFired, dispatched, quiet>>
    /\ NoIteration

\* lines 254-255: self.q.put((view.id(), timestamp)); return timestamp
HitPut(p) ==
    /\ ppc[p] = "put"
    /\ Put(pstamp[p])
    /\ ppc' = [ppc EXCEPT ![p] = "idle"]
    /\ pstamp' = [pstamp EXCEPT ![p] = NoItem]
    /\ UNCHANGED <<now, running, callback, last_runs, tpc, loop_last_runs, remaining,
                   spc, opened, newest, ops, swept, caught, window, hold, discarded,
                   lastFired, dispatched, quiet>>
    /\ NoIteration

\* ---- Daemon.delay: self.q.put(milliseconds / 1000.0); 100 ms are one tick
delay(milliseconds) ==
    /\ ops < MaxOps
    /\ ops' = ops + 1
    /\ Put(Number(milliseconds \div 100))
    /\ UNCHANGED <<now, running, callback, last_runs, tpc, loop_last_runs, remaining,
                   ppc, pstamp, spc, opened, newest, swept, caught, window, hold,
                   discarded, lastFired, dispatched, quiet>>
    /\ NoIteration

\* ---- any other code of the process putting an object on the class attribute Daemon.q
ForeignPut(f) ==
    /\ ops < MaxOps
    /\ ops' = ops + 1
    /\ Put(ForeignItem(f))
    /\ UNCHANGED <<now, running, callback, last_runs, tpc, loop_last_runs, remaining,
                   ppc, pstamp, spc, opened, newest, swept, caught, window, hold,
                   discarded, lastFired, dispatched, quiet>>
    /\ NoIteration

\* ---- the application enqueues again a pair its callback has been called with
Replay(view_id, timestamp) ==
    /\ <<view_id, timestamp>> \in dispatched
    /\ ops < MaxOps
    /\ ops' = ops + 1
    /\ Put(CheckRequest(view_id, timestamp))
    /\ UNCHANGED <<now, running, callback, last_runs, tpc, loop_last_runs, remaining,
                   ppc, pstamp, spc, opened, newest, swept, caught, window, hold,
                   discarded, lastFired, dispatched, quiet>>
    /\ NoIteration

\* ---- Daemon.loop, run by loop thread t
\* mutant of TimedOut: Empty is raised as soon as the queue is empty
TimedOutAtOnce(t) == q = <<>>

\* mutant of TimedOut: q.get never raises Empty
TimedOutNever(t) == FALSE

\* line 219: q.get(block=True, timeout=self.MIN_DELAY) raises Empty: the queue has
\* been empty for the whole wait
TimedOut(t) == q = <<>> /\ remaining[t] = 0

\* mutant of IsDue: an entry is dispatched one tick later than line 223 allows
IsDueLate(timestamp) == now > timestamp + MIN_DELAY + 1

\* line 223: time.monotonic() > timestamp + self.MIN_DELAY
IsDue(timestamp) == now > timestamp + MIN_DELAY

\* mutant of Stale: no request is dropped
NeverStale(view_id, timestamp) == FALSE

\* mutant of Stale: only the presence of the view id is tested
StaleIfKnown(view_id, timestamp) == view_id \in DOMAIN last_runs

\* line 233: view_id in self.last_runs and timestamp < self.last_runs[view_id]
Stale(view_id, timestamp) ==
    view_id \in DOMAIN last_runs /\ timestamp < last_runs[view_id]

\* mutant of Remember: a pending entry is not overwritten
RememberFirst(d, view_id, timestamp) ==
    IF view_id \in DOMAIN d THEN d ELSE DictSet(d, view_id, timestamp)

\* line 236: last_runs[view_id] = timestamp
Remember(d, view_id, timestamp) == DictSet(d, view_id, timestamp)

\* mutant of SleepTime: the sleep returns at once
SleepNone(secs) == 0

\* line 239: how long time.sleep(item) blocks
SleepTime(secs) == secs

\* mutant of LoopAfterError: the exception ends the thread
LoopDead == "dead"

\* lines 216, 246: the except clause ends the iteration and while True starts the next
LoopAfterError == "get"

\* lines 247-250: the four printf calls of the except clause
PrintError ==
    <<"error in SublimeLinter daemon:", "--------------------",
      "traceback", "--------------------">>

\* mutant of Outcome: a number is stored like a check request
OutcomeStoresAll(item) ==
    IF item.kind \in {"tuple", "number"} THEN "accepted" ELSE "unknown"

\* lines 230-245: what the iteration does with the item
\*   "error": the statement raises (a tuple that does not unpack into two names,
\*   time.sleep of a negative number)
Outcome(item) ==
    IF item.kind = "tuple"
    THEN IF item.arity # 2 THEN "error"
         ELSE IF Stale(item.view_id, item.timestamp) THEN "stale" ELSE "accepted"
    ELSE IF item.kind = "number"
    THEN IF item.secs < 0 THEN "error" ELSE "sleep"
    ELSE IF item.kind = "str"
    THEN IF item.text = "reload" THEN "reload" ELSE "ignored"
    ELSE "unknown"

\* history kept by an iteration that gets an item
ItemHistory(t, item, o) ==
    /\ window' =
          [window EXCEPT ![t] =
              IF o = "accepted"
              THEN DictSet(@, item.view_id,
                      Append(IF item.view_id \in DOMAIN @ THEN @[item.view_id] ELSE <<>>,
                             [ts |-> item.timestamp, at |-> now, swept |-> swept,
                              afterErr |-> item.afterErr, cb |-> callback,
                              skipped |-> FALSE]))
              ELSE @]
    /\ discarded' = IF o = "stale"
                    THEN discarded \cup {<<item.view_id, item.timestamp>>}
                    ELSE discarded
    /\ hold' = [hold EXCEPT ![t] = IF o = "sleep"
                                   THEN [from |-> now, until |-> now + item.secs]
                                   ELSE @]
    /\ caught' = (caught \/ o = "error")
    /\ deq' = [item |-> item, at |-> now, by |-> t, outcome |-> o,
               known |-> item.view_id \in DOMAIN last_runs,
               last |-> IF item.view_id \in DOMAIN last_runs
                        THEN last_runs[item.view_id] ELSE 0]
    /\ fired' = <<>>
    /\ sweep' = NoSweep

\* lines 219, 230-250: one iteration of the loop that gets an item
LoopItem(t) ==
    /\ tpc[t] = "get"
    /\ q # <<>>
    /\ LET item == Head(q)
           o == Outcome(item)
       IN  /\ q' = Tail(q)
           /\ tpc' = [tpc EXCEPT ![t] = IF o = "sleep" THEN "sleep"
                                        ELSE IF o = "error" THEN LoopAfterError
                                        ELSE "get"]
           /\ loop_last_runs' =
                 [loop_last_runs EXCEPT ![t] =
                     IF o = "accepted"
                     THEN Remember(@, item.view_id, item.timestamp)
                     ELSE @]
           /\ remaining' = [remaining EXCEPT ![t] = IF o = "sleep" THEN SleepTime(item.secs)
                                                    ELSE MIN_DELAY]
           /\ printed' =
                 IF o = "error" THEN PrintError
                 ELSE IF o = "reload" THEN <<"daemon detected a reload">>
                 ELSE IF o = "unknown" THEN <<"unknown message sent to daemon:">>
                 ELSE <<>>
           /\ ItemHistory(t, item, o)
    /\ quiet' = [quiet EXCEPT ![t] = 0]
    /\ UNCHANGED <<now, running, callback, last_runs, ppc, pstamp, spc, opened, newest, ops,
                   swept, lastFired, dispatched>>

\* line 239: time.sleep(item) returns and the loop calls q.get again
LoopWake(t) ==
    /\ tpc[t] = "sleep"
    /\ remaining[t] = 0
    /\ tpc' = [tpc EXCEPT ![t] = "get"]
    /\ remaining' = [remaining EXCEPT ![t] = MIN_DELAY]
    /\ UNCHANGED <<now, running, callback, q, last_runs, loop_last_runs, ppc,
                   pstamp, spc, opened, newest, ops, swept, caught, window, hold, discarded,
                   lastFired, dispatched, quiet>>
    /\ NoIteration

\* mutant of Record: the sweep does not record its dispatches
RecordNothing(d, done) == d

\* mutant of Record: the sweep keeps the entries of its own dispatches only
RecordOnly(d, done) == [v \in done |-> now]

\* line 224: self.last_runs[view_id] = time.monotonic(), for the view ids of the sweep
Record(d, done) == [v \in (DOMAIN d) \cup done |-> IF v \in done THEN now ELSE d[v]]

\* mutant of Reached: the for loop goes on after a callback has raised
ReachedAll(ord, r) == ord

\* lines 221, 226, 246: the entries the for loop gets to, the callback raising at
\* position r of the iteration order (0: no call raises)
Reached(ord, r) == SubSeq(ord, 1, IF r > 0 THEN r ELSE Len(ord))

\* the orders in which a dict with key set S can be iterated
Orders(S) ==
    {s \in [1..Cardinality(S) -> S] : \A i, j \in 1..Cardinality(S) : i # j => s[i] # s[j]}

\* mutant of reenter: the callback is given the clock reading of the sweep
reenterNow(t, view_id, timestamp, raised) ==
    [view_id |-> view_id, timestamp |-> now, cb |-> callback, raised |-> raised,
     win |-> IF view_id \in DOMAIN window[t] THEN window[t][view_id] ELSE <<>>,
     hasPrev |-> view_id \in DOMAIN lastFired,
     prev |-> IF view_id \in DOMAIN lastFired THEN lastFired[view_id] ELSE 0,
     wasDiscarded |-> <<view_id, timestamp>> \in discarded,
     again |-> <<view_id, timestamp>> \in dispatched]

\* mutant of reenter: the call goes to the callback that was registered when the
\* request was accepted
reenterBound(t, view_id, timestamp, raised) ==
    [view_id |-> view_id, timestamp |-> timestamp,
     cb |-> IF view_id \in DOMAIN window[t]
            THEN window[t][view_id][Len(window[t][view_id])].cb ELSE callback,
     raised |-> raised,
     win |-> IF view_id \in DOMAIN window[t] THEN window[t][view_id] ELSE <<>>,
     hasPrev |-> view_id \in DOMAIN lastFired,
     prev |-> IF view_id \in DOMAIN lastFired THEN lastFired[view_id] ELSE 0,
     wasDiscarded |-> <<view_id, timestamp>> \in discarded,
     again |-> <<view_id, timestamp>> \in dispatched]

\* lines 210-211, 226: self.reenter(view_id, timestamp) calls self.callback(view_id, timestamp)
reenter(t, view_id, timestamp, raised) ==
    [view_id |-> view_id, timestamp |-> timestamp, cb |-> callback, raised |-> raised,
     win |-> IF view_id \in DOMAIN window[t] THEN window[t][view_id] ELSE <<>>,
     hasPrev |-> view_id \in DOMAIN lastFired,
     prev |-> IF view_id \in DOMAIN lastFired THEN lastFired[view_id] ELSE 0,
     wasDiscarded |-> <<view_id, timestamp>> \in discarded,
     again |-> <<view_id, timestamp>> \in dispatched]

\* lines 220-228, 246-250: q.get timed out; the sweep over a copy of the local last_runs.
\* ord is the iteration order of the dict, r the position at which the callback
\* raises (0: no call raises).  A call that raises has ended; otherwise the step
\* leaves the thread inside the last call of the sweep, which returns in reenterReturn.
LoopSweep(t) ==
    /\ tpc[t] = "get"
    /\ TimedOut(t)
    /\ \E ord \in Orders(DOMAIN loop_last_runs[t]) :
       \E r \in 0..Len(ord) :
          /\ r > 0 => IsDue(loop_last_runs[t][ord[r]])
          /\ LET reached == Reached(ord, r)
                 rest == IF r > 0 THEN {ord[i] : i \in (r + 1)..Len(ord)} ELSE {}
                 calls == SelectSeq(reached, LAMBDA v : IsDue(loop_last_runs[t][v]))
                 done == {calls[i] : i \in 1..Len(calls)}
             IN  /\ last_runs' = Record(last_runs, done)
                 /\ loop_last_runs' =
                       [loop_last_runs EXCEPT ![t] =
                           [v \in (DOMAIN @) \ done |-> @[v]]]
                 /\ fired' =
                       [i \in 1..Len(calls) |->
                           reenter(t, calls[i], loop_last_runs[t][calls[i]],
                                   r > 0 /\ i = Len(calls))]
                 /\ printed' = IF r > 0 THEN PrintError ELSE <<>>
                 /\ tpc' = [tpc EXCEPT ![t] = IF r > 0 THEN LoopAfterError
                                              ELSE IF Len(calls) > 0 THEN "call"
                                              ELSE "get"]
                 /\ remaining' = [remaining EXCEPT ![t] =
                                     IF r = 0 /\ Len(calls) > 0 THEN 0 ELSE MIN_DELAY]
                 /\ caught' = (caught \/ r > 0)
                 /\ window' =
                       [window EXCEPT ![t] =
                           [v \in (DOMAIN window[t]) \ done |->
                               IF v \in rest
                               THEN [i \in 1..Len(window[t][v]) |->
                                        [window[t][v][i] EXCEPT !.skipped = TRUE]]
                               ELSE window[t][v]]]
                 /\ dispatched' = dispatched \cup {<<v, loop_last_runs[t][v]>> : v \in done}
                 /\ lastFired' = [v \in (DOMAIN lastFired) \cup done |->
                                     IF v \in done THEN loop_last_runs[t][v]
                                     ELSE lastFired[v]]
                 /\ sweep' = [by |-> t, at |-> now, before |-> loop_last_runs[t],
                              raised |-> r > 0, hold |-> hold[t], swept |-> swept,
                              rest |-> rest]
    /\ swept' = TRUE
    /\ deq' = NoDeq
    /\ quiet' = [quiet EXCEPT ![t] = 0]
    /\ UNCHANGED <<now, running, callback, q, ppc, pstamp, spc, opened, newest, ops,
                   hold, discarded>>

\* lines 211, 228, 219: the last callback of the sweep returns; continue, and q.get again
reenterReturn(t) ==
    /\ tpc[t] = "call"
    /\ tpc' = [tpc EXCEPT ![t] = "get"]
    /\ remaining' = [remaining EXCEPT ![t] = MIN_DELAY]
    /\ UNCHANGED <<now, running, callback, q, last_runs, loop_last_runs, ppc,
                   pstamp, spc, opened, newest, ops, swept, caught, window, hold, discarded,
                   lastFired, dispatched, quiet>>
    /\ NoIteration

\* ---- the program: start is called from one thread (the plugin host's main thread)
Next ==
    \/ Tick
    \/ \E s \in MainThread, cb \in Callbacks : StartRegister(s, cb)
    \/ \E s \in MainThread : StartTest(s)
    \/ \E s \in MainThread : StartReload(s)
    \/ \E s \in MainThread : StartThread(s)
    \/ \E p \in Producers, v \in Docs : HitStamp(p, v)
    \/ \E p \in Producers : HitPut(p)
    \/ \E ms \in DelayMs : delay(ms)
    \/ \E f \in Foreign : ForeignPut(f)
    \/ \E v \in Docs, ts \in 0..MaxTime : Replay(v, ts)
    \/ \E t \in MainThread : LoopItem(t)
    \/ \E t \in MainThread : LoopWake(t)
    \/ \E t \in MainThread : LoopSweep(t)
    \/ \E t \in MainThread : reenterReturn(t)

Spec == Init /\ [][Next]_vars

\* ---- the program with a clock that goes on beyond MaxTime, the loop thread scheduled
\* again and again and time advancing
NextLive == Next \/ TickPast

SpecLive ==
    /\ Init /\ [][NextLive]_vars
    /\ WF_vars(Tick) /\ WF_vars(TickPast)
    /\ \A t \in MainThread :
          /\ WF_vars(LoopItem(t)) /\ WF_vars(LoopWake(t))
          /\ WF_vars(LoopSweep(t)) /\ WF_vars(reenterReturn(t))

\* ---- the program when two threads call start (and nothing calls delay, so that no
\* loop thread sleeps)
NextRace ==
    \/ Tick
    \/ \E s \in Starters, cb \in Callbacks : StartRegister(s, cb)
    \/ \E s \in Starters : StartTest(s)
    \/ \E s \in Starters : StartReload(s)
    \/ \E s \in Starters : StartThread(s)
    \/ \E p \in Producers, v \in Docs : HitStamp(p, v)
    \/ \E p \in Producers : HitPut(p)
    \/ \E t \in Starters : LoopItem(t)
    \/ \E t \in Starters : LoopSweep(t)
    \/ \E t \in Starters : reenterReturn(t)

SpecRace == Init /\ [][NextRace]_vars

\* ======================================================================
\* Claims
\* ======================================================================
FiredIds == {fired[i].view_id : i \in 1..Len(fired)}

WasSweep == sweep.by # 0

\* older than MIN_DELAY when the latest sweep read the clock
OldEnough(timestamp) == sweep.at > timestamp + MIN_DELAY

\* ---- C1: when (id, t1) and then (id, t2), t2 > t1, are dequeued before any sweep
\* has run and (id, t2) is the last request for id the loop got before it dispatches
\* id, the callback is invoked with t2, not with t1; every later callback for id
\* carries a greater timestamp still, so t1 is never passed.
C1_NewerSupersedes ==
    \A i \in 1..Len(fired) :
        LET f == fired[i]
            n == Len(f.win)
        IN  /\ \A k \in 1..(n - 1) :
                  (f.win[k].ts < f.win[n].ts /\ ~f.win[k].swept /\ ~f.win[n].swept)
                      => (f.timestamp = f.win[n].ts /\ f.timestamp # f.win[k].ts)
            /\ f.hasPrev => f.prev < f.timestamp

C1_Witness ==
    \E i \in 1..Len(fired) :
        /\ Len(fired[i].win) = 2
        /\ fired[i].win[1].ts < fired[i].win[2].ts
        /\ ~fired[i].win[1].swept /\ ~fired[i].win[2].swept
        /\ fired[i].timestamp = fired[i].win[2].ts

\* ---- C2: the timestamp passed to the callback for id is the greatest timestamp among
\* the requests for id accepted since the previous callback for id.
C2_GreatestFires ==
    \A i \in 1..Len(fired) :
        \A k \in 1..Len(fired[i].win) : fired[i].win[k].ts <= fired[i].timestamp

\* ---- C3 as stated: a request (id, t) dequeued while LastRunTable[id] exists and is
\* greater than or equal to t is discarded.
C3_DiscardedAtOrBelow ==
    (deq.item.kind = "tuple" /\ deq.item.arity = 2 /\ deq.known
        /\ deq.last >= deq.item.timestamp)
            => deq.outcome = "stale"

\* ---- C3: a request (id, t) dequeued while LastRunTable[id] exists and is greater than
\* t is discarded (it does not become the pending entry of id), and no callback is ever
\* invoked with a pair that was discarded; a request with t = LastRunTable[id] is
\* accepted.
C3_DiscardedBelow ==
    /\ (deq.item.kind = "tuple" /\ deq.item.arity = 2 /\ deq.known)
          => LET id == deq.item.view_id
                 t == deq.item.timestamp
                 pending == loop_last_runs[deq.by]
             IN  /\ deq.last > t
                      => /\ deq.outcome = "stale"
                         /\ id \in DOMAIN pending => pending[id] # t
                 /\ deq.last = t
                      => /\ deq.outcome = "accepted"
                         /\ id \in DOMAIN pending /\ pending[id] = t
    /\ \A i \in 1..Len(fired) : ~fired[i].wasDiscarded

C3_Witness ==
    /\ deq.item.kind = "tuple" /\ deq.item.arity = 2 /\ deq.known
    /\ deq.last > deq.item.timestamp
    /\ deq.outcome = "stale"
    /\ <<deq.item.view_id, deq.item.timestamp>> \in discarded

\* ---- C4: a callback is invoked no sooner than MIN_DELAY after the loop dequeued the
\* request it is invoked for.
C4_NotBeforeMinDelay ==
    \A i \in 1..Len(fired) :
        LET f == fired[i]
        IN  /\ Len(f.win) >= 1
            /\ f.win[Len(f.win)].ts = f.timestamp
            /\ sweep.at >= f.win[Len(f.win)].at + MIN_DELAY

C4_Witness ==
    \E i \in 1..Len(fired) :
        /\ Len(fired[i].win) >= 1
        /\ sweep.at = fired[i].win[Len(fired[i].win)].at + MIN_DELAY

\* ---- C5: with one loop thread, the timestamps of the successive callbacks for one id
\* strictly increase, and a sweep invokes the callback at most once for an id.
C5_StrictlyIncreasing ==
    /\ \A i \in 1..Len(fired) : fired[i].hasPrev => fired[i].prev < fired[i].timestamp
    /\ \A i, j \in 1..Len(fired) : i # j => fired[i].view_id # fired[j].view_id

C5_Witness ==
    \E i \in 1..Len(fired) : fired[i].hasPrev /\ fired[i].prev < fired[i].timestamp

\* ---- C6: however start is called, at most one loop thread is ever created.
C6_OneLoopThread == Cardinality({t \in Starters : tpc[t] # "none"}) <= 1

\* ---- C7: an exception raised in an iteration of the loop (by a malformed item or by
\* the callback) is logged with the four lines of the except clause and the thread goes
\* on to the next q.get; the loop thread never ends.
C7_LoopSurvives ==
    /\ \A t \in Starters : tpc[t] \in {"none", "get", "sleep", "call"}
    /\ (deq.outcome = "error" \/ sweep.raised)
          => /\ Len(printed) = 4
             /\ printed[1] = "error in SublimeLinter daemon:"
             /\ tpc[IF sweep.raised THEN sweep.by ELSE deq.by] = "get"
             /\ caught
    /\ (deq.by # 0 /\ deq.outcome # "error")
          => (Len(printed) = 0 \/ printed[1] # "error in SublimeLinter daemon:")

C7_Witness ==
    \E i \in 1..Len(fired) :
        /\ Len(fired[i].win) >= 1
        /\ fired[i].win[Len(fired[i].win)].afterErr
        /\ fired[i].win[Len(fired[i].win)].ts = fired[i].timestamp

\* ---- C8: after the loop dequeues a delay instruction of D seconds at time T, it
\* invokes no callback before T + D.
C8_DelayPostpones ==
    \A i \in 1..Len(fired) : sweep.at >= sweep.hold.until

C8_Witness ==
    \E i \in 1..Len(fired) :
        /\ Len(fired[i].win) >= 1
        /\ fired[i].win[Len(fired[i].win)].at < sweep.hold.from
        /\ sweep.hold.until > sweep.hold.from + MIN_DELAY
        /\ sweep.at >= sweep.hold.until

C10_SweepEffect ==
    WasSweep =>
        /\ \A i \in 1..Len(fired) :
              LET f == fired[i]
              IN  /\ f.view_id \in DOMAIN sweep.before
                  /\ f.timestamp = sweep.before[f.view_id]
                  /\ Len(f.win) >= 1 /\ f.timestamp = f.win[Len(f.win)].ts
                  /\ f.timestamp < sweep.at
                  /\ OldEnough(f.timestamp)
                  /\ f.view_id \in DOMAIN last_runs /\ last_runs[f.view_id] = sweep.at
                  /\ f.view_id \notin DOMAIN loop_last_runs[sweep.by]
        /\ \A v \in DOMAIN sweep.before :
              ~OldEnough(sweep.before[v])
                  => /\ v \notin FiredIds
                     /\ v \in DOMAIN loop_last_runs[sweep.by]
                     /\ loop_last_runs[sweep.by][v] = sweep.before[v]

C10_Witness ==
    /\ WasSweep
    /\ \E i \in 1..Len(fired) :
          /\ fired[i].timestamp = sweep.before[fired[i].view_id]
          /\ last_runs[fired[i].view_id] = sweep.at
    /\ \E v \in DOMAIN sweep.before :
          /\ ~OldEnough(sweep.before[v])
          /\ v \in DOMAIN loop_last_runs[sweep.by]

\* ---- C11: every dequeued message that is not a (view id, timestamp) tuple, not a
\* number and not the string 'reload' (a string other than 'reload' included) is logged
\* through printf as an unknown message, and the loop thread goes on to the next q.get.
C11_UnknownLogged ==
    (deq.by # 0 /\ ~(deq.item.kind = "tuple" /\ deq.item.arity = 2)
        /\ deq.item.kind # "number"
        /\ ~(deq.item.kind = "str" /\ deq.item.text = "reload"))
            => /\ Len(printed) = 1
               /\ printed[1] = "unknown message sent to daemon:"
               /\ tpc[deq.by] = "get"

\* ---- C12: callback invocations are serial: in every reachable state at most one
\* thread is inside the callback, whatever threads call start, hit and delay.
C12_SerialCallbacks == Cardinality({t \in Starters : tpc[t] = "call"}) <= 1

\* ---- C13: the pending set changes only in an iteration that dequeues a check request
\* or in a sweep, and LastRunTable changes only in a sweep; hit, delay, start, and the
\* iterations that get a control signal or a delay instruction change neither.
C13_Frame ==
    [][/\ loop_last_runs' # loop_last_runs
            => \/ deq'.by # 0 /\ deq'.item.kind = "tuple" /\ deq'.item.arity = 2
               \/ sweep'.by # 0
       /\ last_runs' # last_runs => sweep'.by # 0
       /\ (deq'.by # 0 /\ deq'.item.kind \in {"number", "str"})
            => (loop_last_runs' = loop_last_runs /\ last_runs' = last_runs)]_vars

C13_Witness ==
    /\ deq.by # 0
    /\ deq.item.kind \in {"number", "str"}
    /\ loop_last_runs[deq.by] # EmptyDict

C15_LastRunsGrow ==
    [][/\ \A v \in DOMAIN last_runs :
             v \in DOMAIN last_runs' /\ last_runs'[v] >= last_runs[v]
       /\ \A v \in (DOMAIN last_runs') \ (DOMAIN last_runs) :
             /\ v \notin DOMAIN lastFired
             /\ \E i \in 1..Len(fired') : fired'[i].view_id = v
       /\ \A i \in 1..Len(fired') : fired'[i].view_id \in DOMAIN last_runs']_vars

C15_Witness ==
    \E i \in 1..Len(fired) :
        /\ fired[i].hasPrev
        /\ last_runs[fired[i].view_id] = sweep.at
        /\ sweep.at > fired[i].prev + MIN_DELAY

\* the producers have stopped: no call of start, hit or delay is in progress and none
\* will begin
ProducersDone ==
    /\ ops = MaxOps
    /\ \A p \in Producers : ppc[p] = "idle"
    /\ \A s \in Starters : spc[s] = "idle"

\* ---- C16: once the producers have stopped and the queue is empty, every pending check
\* request is eventually dispatched and the pending set becomes empty, the loop thread
\* running and time
\* advancing (for the requests stamped early enough to become due by clock reading
\* MaxTime); and a sweep runs only after the loop thread has waited MIN_DELAY in q.get
\* with the queue empty, so that any message dequeued in between postpones it.
C16_Drains ==
    /\ \A v \in Docs : \A ts \in 0..(MaxTime - MIN_DELAY - 1) :
          (ProducersDone /\ q = <<>>
              /\ v \in DOMAIN loop_last_runs[1] /\ loop_last_runs[1][v] = ts)
              ~> (<<v, ts>> \in dispatched /\ v \notin DOMAIN loop_last_runs[1])
    /\ (/\ ProducersDone
        /\ tpc[1] # "none"
        /\ \A v \in DOMAIN loop_last_runs[1] : loop_last_runs[1][v] + MIN_DELAY < MaxTime
        /\ \A i \in 1..Len(q) : q[i].timestamp + MIN_DELAY < MaxTime)
          ~> (loop_last_runs[1] = EmptyDict /\ q = <<>>)
    /\ [][sweep'.by # 0 => (q = <<>> /\ quiet[sweep'.by] >= MIN_DELAY)]_vars
    /\ [][deq'.by # 0 => (fired' = <<>> /\ quiet'[deq'.by] = 0)]_vars

C16_Witness ==
    /\ ProducersDone
    /\ fired # <<>>
    /\ q = <<>>
    /\ loop_last_runs[sweep.by] = EmptyDict
    /\ sweep.at < MaxTime

\* the producers have stopped, the queue is empty and nothing is pending
Drained ==
    /\ ProducersDone
    /\ q = <<>>
    /\ \A t \in Starters : tpc[t] \in {"none", "get"} /\ loop_last_runs[t] = EmptyDict

\* ---- C17: once the producers have stopped and the queue and the pending set have
\* drained, the last callback invoked for every id that was hit carries the greatest
\* timestamp hit returned for that id.
C17_NewestNotLost ==
    (Drained /\ tpc[1] = "get")
        => \A v \in DOMAIN newest :
              v \in DOMAIN lastFired /\ lastFired[v] = newest[v]

\* ---- C18: when the callback raises during a sweep for one id, that id has already
\* been removed from the pending set and recorded in LastRunTable, and its request is
\* not retried; every pending entry the sweep had not reached stays pending unchanged,
\* and is dispatched by a later sweep (or replaced by a newer request for its id).
C18_AbortedSweep ==
    /\ [](sweep.raised =>
             /\ fired # <<>>
             /\ LET f == fired[Len(fired)]
                IN  /\ f.raised
                    /\ f.view_id \notin DOMAIN loop_last_runs[sweep.by]
                    /\ f.view_id \in DOMAIN last_runs
                    /\ last_runs[f.view_id] = sweep.at
             /\ \A v \in sweep.rest :
                   /\ v \notin FiredIds
                   /\ v \in DOMAIN loop_last_runs[sweep.by]
                   /\ loop_last_runs[sweep.by][v] = sweep.before[v])
    /\ [](\A i \in 1..Len(fired) : ~fired[i].again)
    /\ \A v \in Docs : \A ts \in 0..(MaxTime - MIN_DELAY - 1) :
          (sweep.raised /\ v \in sweep.rest /\ sweep.before[v] = ts)
              ~> \/ <<v, ts>> \in dispatched
                 \/ v \in DOMAIN loop_last_runs[1] /\ loop_last_runs[1][v] # ts

C18_Witness ==
    \E i \in 1..Len(fired) :
        /\ Len(fired[i].win) >= 1
        /\ fired[i].win[Len(fired[i].win)].skipped
        /\ fired[i].win[Len(fired[i].win)].ts = fired[i].timestamp
        /\ caught

\* ---- C19: every dispatch invokes the callback registered by the most recent start
\* call: after start(cb2) replaces cb1, the requests already pending and the later
\* ones are dispatched to cb2, never to cb1.
C19_LatestCallback ==
    \A i \in 1..Len(fired) :
        /\ fired[i].cb \in Callbacks
        /\ fired[i].cb = callback

C19_Witness ==
    \E i \in 1..Len(fired) :
        /\ Len(fired[i].win) >= 1
        /\ fired[i].win[Len(fired[i].win)].ts = fired[i].timestamp
        /\ fired[i].win[Len(fired[i].win)].cb \in Callbacks
        /\ fired[i].win[Len(fired[i].win)].cb # fired[i].cb
        /\ fired[i].cb = callback

====
